---- MODULE Spec2Model ----
(***************************************************************************)
(* DialectIOU: the checkpoint/resume evaluation driver                     *)
(* (eval_w_checkpoint.py), the plain driver (main.py), the text helpers    *)
(* (utils/text_processing.py, dialect_iou.py) and the model adapters       *)
(* (models/*.py).                                                          *)
(*                                                                         *)
(* Text is modelled as a sequence of tokens.  A token is a record          *)
(* [s |-> <string>, v |-> <number>]: a piece of text s, or a printed       *)
(* number (s = "#") with the value v.  TLC's strings are ASCII, so the     *)
(* Chinese literals of the source are written in ASCII:                    *)
(*    "FILE: "   stands for the label  文件:<space>                        *)
(*    "RESTORE"  stands for            恢复                                *)
(*    "[[" "]]"  stand for the bracket pair  【 】                          *)
(*    ",,"       stands for the fullwidth comma  ，                        *)
(***************************************************************************)
EXTENDS Integers, Sequences, FiniteSets, TLC

T(str) == [s |-> str, v |-> 0]
Num(n) == [s |-> "#", v |-> n]

SP        == T(" ")
TAB       == T("\t")
FileLabel == T("FILE: ")
DotWav    == T(".wav")
DotMp3    == T(".mp3")
Sep       == T(" : ")
RecallKey == T("rolling_recall_avg")
PrecKey   == T("rolling_precision_avg")
RollBare  == T("rolling_")

\* Python's None, where a filename (a non-empty token sequence) is expected.
None == << >>

IsSpace(t) == t \in {SP, TAB}

\* tokens that begin with the characters "rolling_"
IsRollingTok(t) == t \in {RecallKey, PrecKey, RollBare}

IsNumTok(t) == t.s = "#"

RECURSIVE LStrip(_)
LStrip(l) == IF l # << >> /\ IsSpace(Head(l)) THEN LStrip(Tail(l)) ELSE l

RECURSIVE RStrip(_)
RStrip(l) ==
    IF l # << >> /\ IsSpace(l[Len(l)]) THEN RStrip(SubSeq(l, 1, Len(l) - 1)) ELSE l

\* str.strip()
Strip(l) == RStrip(LStrip(l))

\* str.startswith / str.endswith for a one-token prefix or suffix
StartsWith(l, t) == l # << >> /\ l[1] = t
EndsWith(l, t)   == l # << >> /\ l[Len(l)] = t

\* t in str
Contains(l, t) == \E k \in 1..Len(l) : l[k] = t

\* str.split(sep): the pieces between the occurrences of the token sep
RECURSIVE SplitAcc(_, _, _)
SplitAcc(l, sep, cur) ==
    IF l = << >> THEN << cur >>
    ELSE IF Head(l) = sep THEN << cur >> \o SplitAcc(Tail(l), sep, << >>)
    ELSE SplitAcc(Tail(l), sep, Append(cur, Head(l)))

Split(l, sep) == SplitAcc(l, sep, << >>)

\* the elements of a list
Range(q) == { q[k] : k \in 1..Len(q) }

\* one enumeration of a set
RECURSIVE SetToSeq(_)
SetToSeq(S) ==
    IF S = {} THEN << >>
    ELSE LET x == CHOOSE y \in S : TRUE IN << x >> \o SetToSeq(S \ {x})

(***************************************************************************)
(* parse_log_file (eval_w_checkpoint.py 54-115)                            *)
(***************************************************************************)

\* line.strip().startswith("文件: ") and line.strip().endswith(".wav")
IsRecordLine(line) ==
    StartsWith(Strip(line), FileLabel) /\ EndsWith(Strip(line), DotWav)

\* the count with the test of the ".wav" suffix left out
RECURSIVE CountLabelLines(_)
CountLabelLines(lines) ==
    IF lines = << >> THEN 0
    ELSE (IF StartsWith(Strip(Head(lines)), FileLabel) THEN 1 ELSE 0)
         + CountLabelLines(Tail(lines))

\* the forward count of lines 71-73
RECURSIVE CountRecordLines(_)
CountRecordLines(lines) ==
    IF lines = << >> THEN 0
    ELSE (IF IsRecordLine(Head(lines)) THEN 1 ELSE 0) + CountRecordLines(Tail(lines))

\* re.search(r"文件: (.+\.wav)", s): the leftmost label that is followed by at
\* least one character and then ".wav"; the group runs, greedily, to the last
\* ".wav" of the line.  None when there is no match.
RegexStarts(s) ==
    { p \in 1..Len(s) : s[p] = FileLabel /\ \E q \in (p + 2)..Len(s) : s[q] = DotWav }

Max(S) == CHOOSE x \in S : \A y \in S : y <= x
Min(S) == CHOOSE x \in S : \A y \in S : x <= y

RegexFileGroup(s) ==
    IF RegexStarts(s) = {} THEN None
    ELSE LET p == Min(RegexStarts(s))
             q == Max({ k \in (p + 2)..Len(s) : s[k] = DotWav })
         IN  SubSeq(s, p + 1, q)

\* lines 76-81: scan in reverse; the first record line whose regex matches wins
RECURSIVE LastProcessedFile(_)
LastProcessedFile(lines) ==
    IF lines = << >> THEN None
    ELSE LET line == lines[Len(lines)]
         IN  IF IsRecordLine(line) /\ RegexFileGroup(Strip(line)) # None
             THEN RegexFileGroup(Strip(line))
             ELSE LastProcessedFile(SubSeq(lines, 1, Len(lines) - 1))

\* "rolling_recall_avg :" in line
HasMarker(line) ==
    \E k \in 1..(Len(line) - 1) : line[k] = RecallKey /\ line[k + 1] = Sep

MarkerLines(lines) == { k \in 1..Len(lines) : HasMarker(lines[k]) }

\* lines.index(line): the first index whose text equals line
IndexOf(lines, line) == Min({ k \in 1..Len(lines) : lines[k] = line })

\* line 87: the line found scanning in reverse, then lines.index of its text
BlockStart(lines) == IndexOf(lines, lines[Max(MarkerLines(lines))])

\* float(parts[1].strip()) succeeds
IsFloat(txt) == Len(txt) = 1 /\ IsNumTok(txt[1])

\* dict[key] = value
DictSet(d, key, value) ==
    [ k \in DOMAIN d \cup {key} |-> IF k = key THEN value ELSE d[k] ]

EmptyDict == [ k \in {} |-> 0 ]

\* the scan ended by the first line that is not "rolling_<name> : <float>"
RECURSIVE ScanBlockStrict(_, _, _)
ScanBlockStrict(lines, i, acc) ==
    IF i > Len(lines) THEN acc
    ELSE LET current_line == Strip(lines[i])
             parts == Split(current_line, Sep)
         IN  IF current_line # << >> /\ IsRollingTok(current_line[1])
                /\ Len(parts) = 2 /\ IsFloat(Strip(parts[2]))
             THEN ScanBlockStrict(lines, i + 1,
                                  DictSet(acc, Strip(parts[1]), Strip(parts[2])[1].v))
             ELSE acc

\* lines 88-104: the scan from the block start
RECURSIVE ScanBlock(_, _, _)
ScanBlock(lines, i, acc) ==
    IF i > Len(lines) THEN acc
    ELSE LET current_line == Strip(lines[i])
             parts == Split(current_line, Sep)
         IN  IF current_line # << >> /\ IsRollingTok(current_line[1])
                /\ Contains(current_line, Sep)
             THEN IF Len(parts) = 2 /\ IsFloat(Strip(parts[2]))
                  THEN ScanBlock(lines, i + 1,
                                 DictSet(acc, Strip(parts[1]), Strip(parts[2])[1].v))
                  ELSE ScanBlock(lines, i + 1, acc)
             ELSE IF current_line # << >> /\ IsRollingTok(current_line[1])
             THEN ScanBlock(lines, i + 1, acc)
             ELSE acc

LastRollingValues(lines) ==
    IF MarkerLines(lines) = {} THEN EmptyDict
    ELSE ScanBlock(lines, BlockStart(lines), EmptyDict)

\* The value returned for an existing, readable log (line 115).
parse_log_file(lines) ==
    [ last_processed_file |-> LastProcessedFile(lines),
      rolling_values      |-> LastRollingValues(lines),
      processed_count     |-> CountRecordLines(lines) ]

\* no file and no rolling values, but one record counted
CountedCheckpoint ==
    [ last_processed_file |-> None,
      rolling_values      |-> EmptyDict,
      processed_count     |-> 1 ]

\* The value returned when the log does not exist or reading it raises
\* (lines 58, 109): no file, no rolling values, count 0.
NoCheckpoint ==
    [ last_processed_file |-> None,
      rolling_values      |-> EmptyDict,
      processed_count     |-> 0 ]

(***************************************************************************)
(* mark_words_in_text and process_line_to_ground_truth                     *)
(* (utils/text_processing.py 4-58)                                         *)
(***************************************************************************)

LB == T("[[")
RB == T("]]")
LBrace == T("{")
RBrace == T("}")
LT == T("<")
GT == T(">")
Comma == T(",")

\* re.sub(r'[...]', '', text): the text without the tokens of the class
RECURSIVE RemoveAll(_, _)
RemoveAll(text, class) ==
    IF text = << >> THEN << >>
    ELSE (IF Head(text) \in class THEN << >> ELSE << Head(text) >>)
         \o RemoveAll(Tail(text), class)

\* only the first character of word is compared
MatchFirst(text, word, p) ==
    /\ p + Len(word) <= Len(text)
    /\ text[p + 1] = word[1]

\* word occurs in text at the 0-based offset p
MatchAt(text, word, p) ==
    /\ p + Len(word) <= Len(text)
    /\ \A k \in 1..Len(word) : text[p + k] = word[k]

\* re.finditer(re.escape(word), text): the non-overlapping occurrences, leftmost
\* first, as a list of (start, end) pairs over 0-based offsets, from offset p
RECURSIVE FindIter(_, _, _)
FindIter(text, word, p) ==
    IF p + Len(word) > Len(text) THEN << >>
    ELSE IF MatchAt(text, word, p)
         THEN << << p, p + Len(word) >> >> \o FindIter(text, word, p + Len(word))
         ELSE FindIter(text, word, p + 1)

\* tuple order of (start, end) pairs, as list.sort() uses it
PairLess(a, b) == a[1] < b[1] \/ (a[1] = b[1] /\ a[2] < b[2])

RECURSIVE InsertPair(_, _)
InsertPair(x, l) ==
    IF l = << >> THEN << x >>
    ELSE IF PairLess(Head(l), x) THEN << Head(l) >> \o InsertPair(x, Tail(l))
    ELSE << x >> \o l

\* the list left as it is
Unsorted(l) == l

\* line 28: intervals_to_mark.sort()
RECURSIVE SortPairs(_)
SortPairs(l) == IF l = << >> THEN << >> ELSE InsertPair(Head(l), SortPairs(Tail(l)))

\* text[from:to] of Python, 0-based and half-open; empty when to <= from
Slice(text, from, to) == SubSeq(text, from + 1, to)

RECURSIVE Splice(_, _, _, _, _)
Splice(text, intervals, last_pos, left, right) ==
    IF intervals = << >> THEN Slice(text, last_pos, Len(text))
    ELSE LET start == Head(intervals)[1]
             end   == Head(intervals)[2]
         IN  Slice(text, last_pos, start)
             \o << left >> \o Slice(text, start, end) \o << right >>
             \o Splice(text, Tail(intervals), end, left, right)

\* lines 20-23: the matches of each word appended to one list, the words taken
\* in the order the iteration over set(dialect_words) gives them
RECURSIVE IntervalsToMark(_, _)
IntervalsToMark(transcription, order) ==
    IF order = << >> THEN << >>
    ELSE FindIter(transcription, Head(order), 0)
         \o IntervalsToMark(transcription, Tail(order))

\* lines 17-38 for one iteration order of set(dialect_words)
MarkInOrder(transcription, order, left_bracket, right_bracket) ==
    IF order = << >> THEN transcription
    ELSE IF IntervalsToMark(transcription, order) = << >> THEN transcription
    ELSE Splice(transcription, SortPairs(IntervalsToMark(transcription, order)),
                0, left_bracket, right_bracket)

\* the orders in which set(dialect_words) may be iterated
Orders(dialect_words) ==
    { o \in [ 1..Cardinality(Range(dialect_words)) -> Range(dialect_words) ] :
        Range(o) = Range(dialect_words) }

mark_words_in_text(transcription, dialect_words, left_bracket, right_bracket) ==
    MarkInOrder(transcription, SetToSeq(Range(dialect_words)),
                left_bracket, right_bracket)

\* [word for word in cleaned.split(',') if word]
NonEmpty(pieces) == SelectSeq(pieces, LAMBDA w : w # << >>)

\* only the bracket pair is removed, the braces are kept
strip_brackets_only(dialect_words_raw) == RemoveAll(dialect_words_raw, {LB, RB})

\* lines 49 and 55: re.sub(r'[...]', '', dialect_words_raw) with the class
\* of the bracket pair and the two braces
dialect_words_cleaned(dialect_words_raw) ==
    RemoveAll(dialect_words_raw, {LB, RB, LBrace, RBrace})

\* the cleaned field split at the fullwidth commas as well
split_any_comma(dialect_words_raw) ==
    NonEmpty(Split([ k \in 1..Len(dialect_words_cleaned(dialect_words_raw)) |->
                       IF dialect_words_cleaned(dialect_words_raw)[k] = T(",,") THEN Comma
                       ELSE dialect_words_cleaned(dialect_words_raw)[k] ], Comma))

\* line 56: [word for word in dialect_words_cleaned.split(',') if word]
dialect_words(dialect_words_raw) ==
    NonEmpty(Split(dialect_words_cleaned(dialect_words_raw), Comma))

\* The sentinel of a malformed line: ("", "", "").
Sentinel == [ filename |-> << >>, text |-> << >>, words |-> << >> ]

\* the field count tested as "at least two" instead of "exactly three"
process_line_lenient(line, use_word_comparison) ==
    LET parts == Split(Strip(line), TAB)
    IN  IF Len(parts) < 2 THEN Sentinel
        ELSE [ filename |-> parts[1], text |-> parts[2], words |-> << >> ]

process_line_to_ground_truth(line, use_word_comparison) ==
    LET parts == Split(Strip(line), TAB)
    IN  IF Len(parts) # 3 THEN Sentinel
        ELSE IF use_word_comparison
        THEN [ filename |-> parts[1], text |-> parts[2],
               words |-> dialect_words_cleaned(parts[3]) ]
        ELSE [ filename |-> parts[1],
               text     |-> mark_words_in_text(parts[2], dialect_words(parts[3]), LB, RB),
               words    |-> << >> ]

\* process_line_to_ground_truth of dialect_iou.py (5-65): the older, standalone
\* copy; it returns (None, None) for a malformed line and wraps with "<" ">"
dialect_iou_process_line(line) ==
    LET parts == Split(Strip(line), TAB)
    IN  IF Len(parts) # 3 THEN [ filename |-> None, text |-> None ]
        ELSE [ filename |-> parts[1],
               text     |-> mark_words_in_text(parts[2], dialect_words(parts[3]), LT, GT) ]

(***************************************************************************)
(* The metrics (utils/text_processing.py 60-120).  A float is modelled as  *)
(* the fraction << numerator, denominator >> in lowest terms.              *)
(***************************************************************************)

RECURSIVE GCD(_, _)
GCD(a, b) == IF b = 0 THEN a ELSE GCD(b, a % b)

Frac(n, d) == << n \div GCD(n, d), d \div GCD(n, d) >>
Zero == << 0, 1 >>
One  == << 1, 1 >>
FAdd(a, b) == Frac(a[1] * b[2] + b[1] * a[2], a[2] * b[2])
FMul(a, b) == Frac(a[1] * b[1], a[2] * b[2])
FDiv(a, b) == Frac(a[1] * b[2], a[2] * b[1])

\* lines 60-73: the scan keeps the plain-text position and the markup flag
RECURSIVE ExtractFrom(_, _, _)
ExtractFrom(text, plain_text_pos, in_markup) ==
    IF text = << >> THEN {}
    ELSE IF Head(text) = LT THEN ExtractFrom(Tail(text), plain_text_pos, TRUE)
    ELSE IF Head(text) = GT THEN ExtractFrom(Tail(text), plain_text_pos, FALSE)
    ELSE (IF in_markup THEN { plain_text_pos } ELSE {})
         \cup ExtractFrom(Tail(text), plain_text_pos + 1, in_markup)

\* the scan with the closing ">" ignored: a span once opened is never closed
extract_open_indices(text_with_markup) ==
    ExtractFrom(RemoveAll(text_with_markup, {GT}), 0, FALSE)

\* the positions counted in the string as it is, its "<" and ">" included
extract_raw_indices(text_with_markup) ==
    { k - 1 : k \in { n \in 1..Len(text_with_markup) :
        /\ text_with_markup[n] \notin { LT, GT }
        /\ \E o \in 1..(n - 1) :
              /\ text_with_markup[o] = LT
              /\ \A x \in (o + 1)..(n - 1) : text_with_markup[x] # GT } }

extract_char_indices(text_with_markup) == ExtractFrom(text_with_markup, 0, FALSE)

\* the share of the hypothesis' marked characters that the ground truth marks
calculate_text_precision(gt_text, hyp_text) ==
    LET gt_indices  == ExtractFrom(gt_text, 0, FALSE)
        hyp_indices == ExtractFrom(hyp_text, 0, FALSE)
    IN  IF Cardinality(hyp_indices) = 0 THEN << 1, 1 >>
        ELSE << Cardinality(gt_indices \cap hyp_indices) \div
                  GCD(Cardinality(gt_indices \cap hyp_indices), Cardinality(hyp_indices)),
                Cardinality(hyp_indices) \div
                  GCD(Cardinality(gt_indices \cap hyp_indices), Cardinality(hyp_indices)) >>

calculate_text_iou(gt_text, hyp_text) ==
    LET gt_indices  == extract_char_indices(gt_text)
        hyp_indices == extract_char_indices(hyp_text)
    IN  IF Cardinality(gt_indices \cup hyp_indices) = 0 THEN One
        ELSE Frac(Cardinality(gt_indices \cap hyp_indices),
                  Cardinality(gt_indices \cup hyp_indices))

FWComma == T(",,")

\* str.replace(',', fullwidth comma)
RECURSIVE ReplaceCommas(_)
ReplaceCommas(text) ==
    IF text = << >> THEN << >>
    ELSE << IF Head(text) = Comma THEN FWComma ELSE Head(text) >>
         \o ReplaceCommas(Tail(text))

\* set(word.strip() for word in text.split(fullwidth comma) if word.strip())
WordSet(text) ==
    { Strip(Split(text, FWComma)[k]) : k \in 1..Len(Split(text, FWComma)) } \ { << >> }

\* the metrics with an empty set scored 1.0 whatever the other set holds
calculate_word_metrics_lenient(gt_words, hyp_words) ==
    LET gt_word_set  == WordSet(ReplaceCommas(gt_words))
        hyp_word_set == WordSet(hyp_words)
        intersection == gt_word_set \cap hyp_word_set
        recall == IF Cardinality(gt_word_set) = 0 THEN << 1, 1 >>
                  ELSE Frac(Cardinality(intersection), Cardinality(gt_word_set))
        precision == IF Cardinality(hyp_word_set) = 0 THEN << 1, 1 >>
                     ELSE Frac(Cardinality(intersection), Cardinality(hyp_word_set))
        f1 == IF FAdd(precision, recall) = << 0, 1 >> THEN << 0, 1 >>
              ELSE FDiv(FMul(FMul(<< 2, 1 >>, precision), recall), FAdd(precision, recall))
    IN  << recall, precision, f1 >>

\* lines 96-120; the result is (recall, precision, f1)
calculate_word_metrics(gt_words, hyp_words) ==
    LET gt_word_set  == WordSet(ReplaceCommas(gt_words))
        hyp_word_set == WordSet(hyp_words)
        intersection == gt_word_set \cap hyp_word_set
        recall == IF Cardinality(gt_word_set) = 0
                  THEN (IF Cardinality(hyp_word_set) = 0 THEN One ELSE Zero)
                  ELSE Frac(Cardinality(intersection), Cardinality(gt_word_set))
        precision == IF Cardinality(hyp_word_set) = 0
                     THEN (IF Cardinality(gt_word_set) = 0 THEN One ELSE Zero)
                     ELSE Frac(Cardinality(intersection), Cardinality(hyp_word_set))
        f1 == IF FAdd(precision, recall) = Zero THEN Zero
              ELSE FDiv(FMul(FMul(<< 2, 1 >>, precision), recall), FAdd(precision, recall))
    IN  << recall, precision, f1 >>

(***************************************************************************)
(* State                                                                   *)
(***************************************************************************)

VARIABLES
    ann,                 \* the annotation file: its lines, in file order
    audio,               \* the filenames whose audio file exists
    disk,                \* the log file: [exists, lines]
    pc,                  \* where the driver process is
    runs,                \* the number of driver runs started so far
    tee,                 \* sys.stdout is the TeeOutput (the log file is open)
    last_processed_file, \* the checkpoint read by this run
    start_processing,
    processed_lines,
    i,                   \* position of the for loop in the annotation lines
    rec,                 \* (filename, gt_text) of the record being handled
    hyp_text,
    evaluator,           \* the external evaluator object of this run
    printed,             \* what this run has written to sys.stdout
    hist,                \* history of the runs, for the properties
    env,                 \* what the runs find: [canOpen, canRead, annFound, evalLoads]
    plog,                \* a log handed to parse_log_file on its own
    parsed,              \* what parse_log_file returned for plog
    mode,                \* run_evaluation: "word", "external" or "iou"
    totals,              \* run_evaluation: total_recall, total_precision, total_f1, total_iou
    args,                \* the arguments of a text function called on its own
    result               \* what that call returned

drvVars == << ann, audio, disk, pc, runs, tee, last_processed_file, start_processing,
              processed_lines, i, rec, hyp_text, evaluator, printed, hist, env >>
parseVars == << plog, parsed >>
mainVars == << mode, totals >>
fnVars == << args, result >>
vars == << drvVars, parseVars, mainVars, fnVars >>

(***************************************************************************)
(* Bounds and input sets                                                   *)
(***************************************************************************)

MaxLines == 3    \* lines of the annotation file
MaxRuns == 2     \* driver runs (process starts) in one behaviour
MaxLogLen == 3   \* lines of a log handed to parse_log_file on its own
Scale == 12      \* a printed number v stands for the float v / Scale

NameA == << T("a"), DotWav >>
NameB == << T("b"), DotWav >>
NameC == << T("c"), DotMp3 >>
Names == { NameA, NameB }

Transcription == << T("x"), T("y") >>
DialectField  == << LB, T("y"), RB >>

AnnLine(name) == name \o << TAB >> \o Transcription \o << TAB >> \o DialectField

\* a whitespace-only line, and a line of two fields
BlankLine == << SP >>
TwoFields == NameA \o << TAB >> \o Transcription

AnnLines == { AnnLine(n) : n \in Names } \cup { BlankLine, TwoFields }

(***************************************************************************)
(* The external segment evaluator.  It is not part of the repository: the  *)
(* driver only instantiates it, sets its _rolling_count and rolling_*      *)
(* attributes and calls print_evaluation_report, whose output must hold    *)
(* the lines "rolling_<name> : <float>" that parse_log_file reads.         *)
(***************************************************************************)

KeyRecall == << RecallKey >>
KeyPrec   == << PrecKey >>

NewEvaluator ==
    [ rolling_count |-> 0,
      attrs |-> [ k \in { KeyRecall, KeyPrec } |-> 0 ] ]

\* what the model may answer, and the (recall, precision) the evaluator gives it
HypBoth   == << T("x"), LB, T("y"), RB >>
HypRecall == << LB, T("x"), T("y"), RB >>
Hyps == { HypBoth, HypRecall }

ScoreOf(gt_text, hyp) ==
    [ recall |-> IF hyp \in { HypBoth, HypRecall } THEN 1 ELSE 0,
      prec   |-> IF hyp = HypBoth THEN 1 ELSE 0 ]

\* a running mean over rolling_count items, taking in one more score
RollAvg(avg, n, score) == (avg * n + score * Scale) \div (n + 1)

print_evaluation_report(ev, gt_text, hyp) ==
    [ rolling_count |-> ev.rolling_count + 1,
      attrs |-> [ ev.attrs EXCEPT
          ![KeyRecall] = RollAvg(@, ev.rolling_count, ScoreOf(gt_text, hyp).recall),
          ![KeyPrec]   = RollAvg(@, ev.rolling_count, ScoreOf(gt_text, hyp).prec) ] ]

\* the lines the report prints
ReportLines(ev) ==
    << << RecallKey, Sep, Num(ev.attrs[KeyRecall]) >>,
       << PrecKey, Sep, Num(ev.attrs[KeyPrec]) >> >>

(***************************************************************************)
(* restore_evaluator_state (eval_w_checkpoint.py 117-133)                  *)
(***************************************************************************)

restore_evaluator_state(ev, rolling_values, processed_count) ==
    [ rolling_count |-> processed_count,
      attrs |-> [ k \in DOMAIN ev.attrs \cup DOMAIN rolling_values |->
                    IF k \in DOMAIN rolling_values THEN rolling_values[k]
                    ELSE ev.attrs[k] ] ]

\* the lines restore_evaluator_state prints (122, 126, 133)
RestoreLines(rolling_values, processed_count) ==
    << << T("restoring the evaluator state") >>,
       << SP, T("RESTORE"), T("_rolling_count"), T(" = "), Num(processed_count) >> >>
    \o [ n \in 1..Cardinality(DOMAIN rolling_values) |->
           << SP, T("RESTORE") >> \o SetToSeq(DOMAIN rolling_values)[n]
           \o << T(" = "), Num(rolling_values[SetToSeq(DOMAIN rolling_values)[n]]) >> ]

(***************************************************************************)
(* run_evaluation_with_checkpoint (eval_w_checkpoint.py 162-303)           *)
(***************************************************************************)

Stopped == { "init", "done", "returned", "raised", "killed" }
Running == { "loop", "process", "print_file", "print_gt", "report" }

\* What a run keeps for the properties: the records handed to the model and to
\* the evaluator in this run, the text handed to the model with each of them,
\* how often each record was scored over all runs,
\* the evaluator of one uninterrupted sweep fed the same records and answers,
\* whether parse_log_file found no file or failed to read it, and how the
\* earlier runs ended.
NewHist ==
    [ sentModel    |-> << >>,
      sentText     |-> << >>,
      sentEval     |-> << >>,
      scored       |-> [ k \in 1..MaxLines |-> 0 ],
      ideal        |-> NewEvaluator,
      scoredAtStart |-> [ k \in 1..MaxLines |-> 0 ],
      cleanStops   |-> TRUE,
      raised       |-> FALSE,
      restored     |-> 0,
      scoredBefore |-> 0,
      preLog       |-> << >>,
      logged       |-> FALSE,
      fresh        |-> FALSE,
      parseFailed  |-> FALSE,
      fault        |-> "none" ]

NoRecord == [ filename |-> << >>, text |-> << >>, words |-> << >> ]

\* lines 179-188
HeaderLines ==
    << << >>, << T("=") >>, << T("======== resumed run: "), T("timestamp") >>,
       << T("=") >>, << T("-") >>, << T("processing the text file") >>,
       << T("audio root") >>, << T("appending the output to the log file") >>,
       << T("-") >> >>

\* lines 291-296
FooterLines(n) ==
    << << T("-") >>, << T("done") >>, << T("lines processed in this run: "), Num(n) >>,
       << T("=") >>, << T("======== resumed run ends: "), T("timestamp") >>,
       << T("=") >> >>

\* lines 60 and 111-113: what parse_log_file prints around the parse
ParseBanner == << << T("parsing the log file") >> >>
ParseSummary(ck) ==
    << << T("the last processed file is ") >> \o ck.last_processed_file,
       << T("processed files: "), Num(ck.processed_count) >>,
       << T("rolling values found: "), Num(Cardinality(DOMAIN ck.rolling_values)) >> >>

\* an open that empties the file, as open(log_file_path, 'w') would
OpenTruncate(d, out) == [ exists |-> TRUE, lines |-> out ]

\* open(log_file_path, 'a') at line 155: the file is created when it is
\* missing, and what it holds is kept; then every line printed is written to it
OpenAppend(d, out) == [ exists |-> TRUE, lines |-> d.lines \o out ]

\* find_latest_log_file (44-52) for a directory holding at most one log
find_latest_log_file(d) == d.exists

StartRun(given) ==
    /\ pc \in Stopped
    /\ runs < MaxRuns
    /\ runs' = runs + 1
    /\ i' = 1
    /\ rec' = NoRecord
    /\ hyp_text' = << >>
    /\ start_processing' = FALSE
    /\ processed_lines' = 0
    /\ UNCHANGED << ann, audio, env, parseVars, mainVars, fnVars >>
    /\ LET hasPath == given \/ find_latest_log_file(disk)
           \* open(log_file_path, 'a') succeeds (154-160), the annotation file is
           \* there (190-195), the external evaluator is enabled and loads (214-243)
           canOpen == env.canOpen
           \* open(log_file_path, 'r') and f.readlines() succeed (67-68)
           canRead == env.canRead
           annFound == env.annFound
           evalLoads == env.evalLoads
           \* os.path.exists(log_file_path) at line 56
           exists == canOpen \/ disk.exists
           \* line 159 prints before the header when the open fails
           pre == (IF canOpen THEN << >>
                   ELSE << << T("warning: the log file cannot be opened") >> >>)
                  \o HeaderLines \o
                  (IF exists THEN ParseBanner
                   ELSE << << T("warning: the log file does not exist") >> >>)
           \* what f.readlines() gives at line 68: the lines printed so far are
           \* already in the file when the tee is installed
           seen == IF canOpen THEN disk.lines \o pre ELSE disk.lines
           \* lines 56-58 and 107-109: no file, or the read raises
           failed == ~exists \/ ~canRead
           ck == IF failed THEN NoCheckpoint ELSE parse_log_file(seen)
           mid == pre \o (IF ~exists THEN << >>
                          ELSE IF ~canRead THEN << << T("error when parsing the log file") >> >>
                          ELSE ParseSummary(ck))
           ev == restore_evaluator_state(NewEvaluator, ck.rolling_values, ck.processed_count)
           out == IF ~annFound
                  THEN SubSeq(pre, 1, Len(pre) - 1)
                       \o << << T("error: text file not found") >> >>
                  ELSE IF ~evalLoads THEN mid \o << << T("error: no external evaluator") >> >>
                  ELSE mid \o RestoreLines(ck.rolling_values, ck.processed_count)
           h0 == [ hist EXCEPT !.sentModel = << >>, !.sentText = << >>, !.sentEval = << >>,
                               !.preLog = disk.lines, !.logged = canOpen,
                               !.fresh = FALSE, !.fault = "none", !.parseFailed = FALSE,
                               !.restored = 0, !.scoredBefore = 0,
                               !.scoredAtStart = hist.scored ]
       IN  IF ~hasPath
           THEN \* line 171: setup_logging(None) returns None, the unpacking raises
                /\ pc' = "raised"
                /\ hist' = [ h0 EXCEPT !.fault = "unpack", !.fresh = TRUE, !.logged = FALSE,
                                       !.raised = TRUE ]
                /\ printed' = << >>
                /\ tee' = FALSE
                /\ UNCHANGED << disk, last_processed_file, evaluator >>
           ELSE /\ disk' = IF canOpen THEN OpenAppend(disk, out) ELSE disk
                /\ printed' = out
                /\ IF ~annFound
                   THEN \* lines 193-195
                        /\ pc' = "returned"
                        /\ hist' = [ h0 EXCEPT !.fault = "no_annotation" ]
                        /\ tee' = FALSE
                        /\ UNCHANGED << last_processed_file, evaluator >>
                   ELSE IF ~evalLoads
                   THEN \* lines 237-243
                        /\ pc' = "returned"
                        /\ hist' = [ h0 EXCEPT !.fault = "no_evaluator",
                                               !.parseFailed = failed ]
                        /\ tee' = FALSE
                        /\ last_processed_file' = ck.last_processed_file
                        /\ UNCHANGED evaluator
                   ELSE /\ pc' = "loop"
                        /\ hist' = [ h0 EXCEPT
                                       !.fresh = (ck.last_processed_file = None),
                                       !.parseFailed = failed,
                                       !.restored = ev.rolling_count,
                                       !.scoredBefore = hist.ideal.rolling_count ]
                        /\ tee' = canOpen
                        /\ last_processed_file' = ck.last_processed_file
                        /\ evaluator' = ev

\* print through sys.stdout: to the log file as well when the tee is installed
Emit(ls) ==
    /\ printed' = printed \o ls
    /\ disk' = IF tee THEN [ disk EXCEPT !.lines = @ \o ls ] ELSE disk

\* lines 258-267: what the loop does with a well-formed record.
\*   "process": the sweep has started already
\*   "start":   no checkpoint, the sweep starts with this record
\*   "resume":  this record is the checkpoint, the sweep starts after it
\*   "skip":    the sweep has not started
\* the sweep resumes after the first record, whatever its name
StartDecisionAnyRecord(started, last, filename) ==
    IF started THEN "process"
    ELSE IF last = None THEN "start"
    ELSE "resume"

StartDecisionNoContinue(started, last, filename) ==
    IF started THEN "process"
    ELSE IF last = None \/ filename = last THEN "start"
    ELSE "skip"

StartDecision(started, last, filename) ==
    IF started THEN "process"
    ELSE IF last = None THEN "start"
    ELSE IF filename = last THEN "resume"
    ELSE "skip"

\* One pass of the for loop up to the model call (lines 249-273), or the end
\* of the sweep (lines 291-303).
LoopStep ==
    /\ pc = "loop"
    /\ UNCHANGED << ann, audio, env, runs, last_processed_file, hyp_text, evaluator,
                    processed_lines, hist, parseVars, mainVars, fnVars >>
    /\ IF i > Len(ann)
       THEN /\ Emit(FooterLines(processed_lines))
            /\ pc' = "done"
            /\ tee' = FALSE
            /\ UNCHANGED << i, rec, start_processing >>
       ELSE LET line == ann[i]
                r == process_line_to_ground_truth(line, FALSE)
                what == StartDecision(start_processing, last_processed_file, r.filename)
                starts == what = "start"
                resumes == what = "resume"
                skipped == what \in { "resume", "skip" }
                note == IF starts THEN << << T("processing all files from the start") >> >>
                        ELSE IF resumes
                        THEN << << T("resuming after the file ") >> \o r.filename >>
                        ELSE << >>
            IN  /\ tee' = tee
                /\ IF Strip(line) = << >>
                   THEN /\ i' = i + 1
                        /\ UNCHANGED << pc, rec, start_processing, printed, disk >>
                   ELSE IF r.filename = << >>
                   THEN /\ Emit(<< << T("warning: skipping the malformed line: ") >>
                                   \o Strip(line) >>)
                        /\ i' = i + 1
                        /\ UNCHANGED << pc, rec, start_processing >>
                   ELSE IF skipped
                   THEN /\ Emit(note)
                        /\ start_processing' = resumes
                        /\ i' = i + 1
                        /\ UNCHANGED << pc, rec >>
                   ELSE IF r.filename \notin audio
                   THEN /\ Emit(note \o << << T("error: audio file not found at ") >>
                                           \o r.filename >>)
                        /\ start_processing' = TRUE
                        /\ i' = i + 1
                        /\ UNCHANGED << pc, rec >>
                   ELSE /\ Emit(note)
                        /\ start_processing' = TRUE
                        /\ rec' = r
                        /\ pc' = "process"
                        /\ UNCHANGED i

\* line 273: plain_transcription = re.sub(r'[<>]', '', gt_text)
plain_transcription(gt_text) == RemoveAll(gt_text, {LT, GT})

\* line 276: hyp_text = model.process(full_audio_path, plain_transcription)
ModelProcess ==
    /\ pc = "process"
    /\ \E h \in Hyps : hyp_text' = h
    /\ hist' = [ hist EXCEPT !.sentModel = Append(@, i),
                             !.sentText = Append(@, plain_transcription(rec.text)) ]
    /\ pc' = "print_file"
    /\ UNCHANGED << ann, audio, env, disk, runs, tee, last_processed_file, start_processing,
                    processed_lines, i, rec, evaluator, printed, parseVars, mainVars, fnVars >>

\* line 276 when model.process raises: nothing catches it, the finally block
\* (298-303) closes the log and the exception leaves the function
ModelRaises ==
    /\ pc = "process"
    /\ pc' = "raised"
    /\ tee' = FALSE
    /\ hist' = [ hist EXCEPT !.sentModel = Append(@, i),
                             !.sentText = Append(@, plain_transcription(rec.text)),
                             !.fault = "model", !.raised = TRUE ]
    /\ UNCHANGED << ann, audio, env, disk, runs, last_processed_file, start_processing,
                    processed_lines, i, rec, hyp_text, evaluator, printed, parseVars, mainVars, fnVars >>

\* line 278
PrintFile ==
    /\ pc = "print_file"
    /\ Emit(<< << FileLabel >> \o rec.filename >>)
    /\ pc' = "print_gt"
    /\ UNCHANGED << ann, audio, env, runs, tee, last_processed_file, start_processing,
                    processed_lines, i, rec, hyp_text, evaluator, hist, parseVars, mainVars, fnVars >>

\* lines 279-280
PrintGtHyp ==
    /\ pc = "print_gt"
    /\ Emit(<< << SP, T("GT"), Sep >> \o rec.text, << SP, T("HYP"), Sep >> \o hyp_text >>)
    /\ pc' = "report"
    /\ UNCHANGED << ann, audio, env, runs, tee, last_processed_file, start_processing,
                    processed_lines, i, rec, hyp_text, evaluator, hist, parseVars, mainVars, fnVars >>

\* lines 282-289: the evaluator scores the record and prints its report
Report ==
    /\ pc = "report"
    /\ evaluator' = print_evaluation_report(evaluator, rec.text, hyp_text)
    /\ Emit(ReportLines(evaluator'))
    /\ processed_lines' = processed_lines + 1
    /\ i' = i + 1
    /\ pc' = "loop"
    /\ hist' = [ hist EXCEPT
                   !.sentEval = Append(@, i),
                   !.scored[i] = @ + 1,
                   !.ideal = print_evaluation_report(@, rec.text, hyp_text) ]
    /\ UNCHANGED << ann, audio, env, runs, tee, last_processed_file, start_processing,
                    rec, hyp_text, parseVars, mainVars, fnVars >>

\* line 285 when print_evaluation_report raises: the try around it is commented
\* out (283, 286-287), so the exception leaves the function through the finally
ReportRaises ==
    /\ pc = "report"
    /\ pc' = "raised"
    /\ tee' = FALSE
    /\ hist' = [ hist EXCEPT !.fault = "evaluator", !.raised = TRUE, !.cleanStops = FALSE ]
    /\ UNCHANGED << ann, audio, env, disk, runs, last_processed_file, start_processing,
                    processed_lines, i, rec, hyp_text, evaluator, printed, parseVars, mainVars, fnVars >>

\* The process is stopped from outside (the machine goes down, the user
\* interrupts it) between two steps; the evaluator object is lost with it.
Kill ==
    /\ pc \in Running
    /\ pc' = "killed"
    /\ tee' = FALSE
    /\ hist' = [ hist EXCEPT !.cleanStops = @ /\ pc = "loop" ]
    /\ UNCHANGED << ann, audio, env, disk, runs, last_processed_file, start_processing,
                    processed_lines, i, rec, hyp_text, evaluator, printed, parseVars, mainVars, fnVars >>

\* run_evaluation is not running
NoTotals == [ recall |-> Zero, precision |-> Zero, f1 |-> Zero, iou |-> Zero ]

MainIdle == mode = "none" /\ totals = NoTotals

\* no text function is called on its own
NoCall == [ fn |-> "none" ]

FnIdle == args = NoCall /\ result = NoCall

MissingSets == { S \in SUBSET Names : Cardinality(S) <= 1 }

Init ==
    /\ ann \in [ 1..MaxLines -> AnnLines ]
    /\ audio \in { Names \ S : S \in MissingSets }
    /\ disk = [ exists |-> FALSE, lines |-> << >> ]
    /\ pc = "init"
    /\ runs = 0
    /\ tee = FALSE
    /\ last_processed_file = None
    /\ start_processing = FALSE
    /\ processed_lines = 0
    /\ i = 1
    /\ rec = NoRecord
    /\ hyp_text = << >>
    /\ evaluator = NewEvaluator
    /\ printed = << >>
    /\ hist = NewHist
    /\ env \in [ canOpen : BOOLEAN, canRead : BOOLEAN, annFound : BOOLEAN,
                 evalLoads : BOOLEAN ]
    /\ plog = << >>
    /\ parsed = NoCheckpoint
    /\ MainIdle
    /\ FnIdle

Next ==
    \/ \E given \in BOOLEAN : StartRun(given)
    \/ LoopStep
    \/ ModelProcess
    \/ ModelRaises
    \/ PrintFile
    \/ PrintGtHyp
    \/ Report
    \/ ReportRaises
    \/ Kill

Spec == Init /\ [][Next]_vars

(***************************************************************************)
(* One resumed run.  The earlier runs have happened: the log holds what    *)
(* they printed for the records they scored, the first n records with      *)
(* existing audio, or it is the log of a sweep over another list.          *)
(***************************************************************************)

NameD == << T("d"), DotWav >>

\* lines 278-285 for the records at the positions q, one after the other
RECURSIVE PriorBlocks(_, _)
PriorBlocks(q, ev) ==
    IF q = << >> THEN << >>
    ELSE LET r == process_line_to_ground_truth(ann[Head(q)], FALSE)
             ev2 == print_evaluation_report(ev, r.text, HypBoth)
         IN  << << FileLabel >> \o r.filename,
                << SP, T("GT"), Sep >> \o r.text,
                << SP, T("HYP"), Sep >> \o HypBoth >>
             \o ReportLines(ev2) \o PriorBlocks(Tail(q), ev2)

RECURSIVE AscendingSeq(_)
AscendingSeq(S) ==
    IF S = {} THEN << >>
    ELSE LET m == CHOOSE x \in S : \A y \in S : x <= y
         IN  << m >> \o AscendingSeq(S \ {m})

\* the positions of the records with existing audio, in file order
WithAudio ==
    AscendingSeq({ k \in 1..Len(ann) :
        LET f == process_line_to_ground_truth(ann[k], FALSE).filename
        IN  f # << >> /\ f \in audio })

\* the first n of them
PriorSweep(n) == [ k \in 1..n |-> WithAudio[k] ]

PriorLogs ==
    { [ lines |-> PriorBlocks(PriorSweep(n), NewEvaluator),
        swept |-> { WithAudio[k] : k \in 1..n } ] : n \in 0..Len(WithAudio) }
    \cup { [ lines |-> << << FileLabel >> \o NameD >>, swept |-> {} ] }

InitResume ==
    /\ ann \in [ 1..MaxLines -> AnnLines ]
    /\ audio \in { Names \ S : S \in MissingSets }
    /\ env \in [ canOpen : BOOLEAN, canRead : { TRUE }, annFound : { TRUE },
                 evalLoads : { TRUE } ]
    /\ \E prior \in PriorLogs :
          /\ disk = [ exists |-> TRUE, lines |-> prior.lines ]
          /\ hist = [ NewHist EXCEPT
                        !.scored = [ k \in 1..MaxLines |-> IF k \in prior.swept THEN 1 ELSE 0 ] ]
    /\ pc = "init"
    /\ runs = MaxRuns - 1
    /\ tee = FALSE
    /\ last_processed_file = None
    /\ start_processing = FALSE
    /\ processed_lines = 0
    /\ i = 1
    /\ rec = NoRecord
    /\ hyp_text = << >>
    /\ evaluator = NewEvaluator
    /\ printed = << >>
    /\ plog = << >>
    /\ parsed = NoCheckpoint
    /\ MainIdle
    /\ FnIdle

SpecResume == InitResume /\ [][Next]_vars

(***************************************************************************)
(* One run whose log cannot be parsed: the log of an earlier sweep over the *)
(* whole list is there but reading it raises, or no log file is there and  *)
(* none can be created.                                                    *)
(***************************************************************************)

InitUnparsed ==
    /\ ann \in [ 1..MaxLines -> AnnLines ]
    /\ audio \in { Names \ S : S \in MissingSets }
    /\ \/ /\ env \in [ canOpen : BOOLEAN, canRead : { FALSE }, annFound : { TRUE },
                       evalLoads : { TRUE } ]
          /\ disk = [ exists |-> TRUE, lines |-> PriorBlocks(WithAudio, NewEvaluator) ]
       \/ /\ env \in [ canOpen : { FALSE }, canRead : { TRUE }, annFound : { TRUE },
                       evalLoads : { TRUE } ]
          /\ disk = [ exists |-> FALSE, lines |-> << >> ]
    /\ hist = NewHist
    /\ pc = "init"
    /\ runs = MaxRuns - 1
    /\ tee = FALSE
    /\ last_processed_file = None
    /\ start_processing = FALSE
    /\ processed_lines = 0
    /\ i = 1
    /\ rec = NoRecord
    /\ hyp_text = << >>
    /\ evaluator = NewEvaluator
    /\ printed = << >>
    /\ plog = << >>
    /\ parsed = NoCheckpoint
    /\ MainIdle
    /\ FnIdle

SpecUnparsed == InitUnparsed /\ [][Next]_vars

(***************************************************************************)
(* run_evaluation (main.py 42-180).  The scoring mode is fixed before the  *)
(* sweep: "word" when config.USE_WORD_COMPARISON is set (59), otherwise    *)
(* "external" when the external evaluator is enabled and loads (93-110),   *)
(* otherwise "iou" (111-114).                                              *)
(***************************************************************************)

\* a line whose third field is lost to the trimming of the line
TrailingTab == NameB \o << TAB >> \o Transcription \o << TAB >>

MainAnnLines == AnnLines \cup { TrailingTab }

\* what the model may answer in word mode: a comma-separated word list
WordHyps == { << >>, << T("y") >>, << T("y"), Comma, T("z") >> }

\* what it may answer otherwise: the text with marked spans
MarkHyps == { << T("x"), LT, T("y"), GT >>, << T("x"), T("y") >> }

InitMain ==
    /\ ann \in [ 1..MaxLines -> MainAnnLines ]
    /\ audio \in { Names \ S : S \in MissingSets }
    /\ mode \in { "word", "external", "iou" }
    /\ totals = NoTotals
    /\ pc = "main_loop"
    /\ disk = [ exists |-> FALSE, lines |-> << >> ]
    /\ runs = 0
    /\ tee = FALSE
    /\ last_processed_file = None
    /\ start_processing = FALSE
    /\ processed_lines = 0
    /\ i = 1
    /\ rec = NoRecord
    /\ hyp_text = << >>
    /\ evaluator = NewEvaluator
    /\ printed = << >>
    /\ hist = NewHist
    /\ env = [ canOpen |-> TRUE, canRead |-> TRUE, annFound |-> TRUE, evalLoads |-> TRUE ]
    /\ plog = << >>
    /\ parsed = NoCheckpoint
    /\ FnIdle

MainRecord == process_line_to_ground_truth(ann[i], mode = "word")

\* the line reaches model.process: it is well-formed, and outside word mode
\* its audio file exists (lines 67-72, 120-130)
MainReachesModel ==
    /\ Strip(ann[i]) # << >>
    /\ MainRecord.filename # << >>
    /\ mode = "word" \/ MainRecord.filename \in audio

\* lines 67-72, 120-130: a blank line, a malformed line, or, outside word
\* mode, a record whose audio file is missing, is passed over
MainSkip ==
    /\ pc = "main_loop"
    /\ i <= Len(ann)
    /\ ~MainReachesModel
    /\ printed' = printed \o
         (IF Strip(ann[i]) = << >> THEN << >>
          ELSE IF MainRecord.filename = << >>
          THEN << << T("warning: skipping the malformed line: ") >> \o Strip(ann[i]) >>
          ELSE << << T("error: audio file not found at ") >> \o MainRecord.filename >>)
    /\ i' = i + 1
    /\ UNCHANGED << ann, audio, disk, pc, runs, tee, last_processed_file, start_processing,
                    processed_lines, rec, hyp_text, evaluator, hist, env,
                    parseVars, mainVars, fnVars >>

\* lines 74-89: word mode
MainWord ==
    /\ pc = "main_loop"
    /\ i <= Len(ann)
    /\ MainReachesModel
    /\ mode = "word"
    /\ \E h \in WordHyps :
         LET m == calculate_word_metrics(MainRecord.words, h)
         IN  /\ hyp_text' = h
             /\ totals' = [ totals EXCEPT !.recall = FAdd(@, m[1]),
                                          !.precision = FAdd(@, m[2]),
                                          !.f1 = FAdd(@, m[3]) ]
             /\ printed' = printed \o
                  << << FileLabel >> \o MainRecord.filename,
                     << SP, T("GT text: ") >> \o MainRecord.text,
                     << SP, T("GT words: ") >> \o MainRecord.words,
                     << SP, T("HYP words: ") >> \o h,
                     << SP, T("recall, precision, f1: "), Num(m[1][1]), Num(m[1][2]),
                        Num(m[2][1]), Num(m[2][2]), Num(m[3][1]), Num(m[3][2]) >>,
                     << >> >>
    /\ processed_lines' = processed_lines + 1
    /\ rec' = MainRecord
    /\ hist' = [ hist EXCEPT !.sentModel = Append(@, i),
                             !.sentText = Append(@, MainRecord.text) ]
    /\ i' = i + 1
    /\ UNCHANGED << ann, audio, disk, pc, runs, tee, last_processed_file, start_processing,
                    evaluator, env, parseVars, mode, fnVars >>

\* lines 131-151: the external evaluator, whose failure is caught (141-145),
\* or the IoU of the two marked texts
MainInterval ==
    /\ pc = "main_loop"
    /\ i <= Len(ann)
    /\ MainReachesModel
    /\ mode # "word"
    /\ \E h \in MarkHyps, fails \in BOOLEAN :
         LET head == << << FileLabel >> \o MainRecord.filename,
                        << SP, T("GT"), Sep >> \o MainRecord.text,
                        << SP, T("HYP"), Sep >> \o h >>
             ev   == print_evaluation_report(evaluator, MainRecord.text, h)
             iou  == calculate_text_iou(MainRecord.text, h)
             \* line 131
             plain == plain_transcription(MainRecord.text)
         IN  /\ hyp_text' = h
             /\ IF mode = "external"
                THEN IF fails
                     THEN /\ printed' = printed \o head
                               \o << << SP, T("the external evaluator failed") >> >>
                          /\ hist' = [ hist EXCEPT !.sentModel = Append(@, i),
                                                   !.sentText = Append(@, plain) ]
                          /\ UNCHANGED evaluator
                     ELSE /\ printed' = printed \o head \o ReportLines(ev)
                          /\ evaluator' = ev
                          /\ hist' = [ hist EXCEPT !.sentModel = Append(@, i),
                                                   !.sentText = Append(@, plain),
                                                   !.sentEval = Append(@, i) ]
                ELSE /\ fails = FALSE
                     /\ printed' = printed \o head
                          \o << << SP, T("IoU"), Sep, Num(iou[1]), Num(iou[2]) >>, << >> >>
                     /\ UNCHANGED evaluator
                     /\ hist' = [ hist EXCEPT !.sentModel = Append(@, i),
                                              !.sentText = Append(@, plain) ]
             /\ totals' = IF mode = "iou" THEN [ totals EXCEPT !.iou = FAdd(@, iou) ]
                          ELSE totals
             /\ processed_lines' = IF mode = "iou" THEN processed_lines + 1
                                   ELSE processed_lines
    /\ rec' = MainRecord
    /\ i' = i + 1
    /\ UNCHANGED << ann, audio, disk, pc, runs, tee, last_processed_file, start_processing,
                    env, parseVars, mode, fnVars >>

\* lines 77 and 134 when model.process raises: nothing catches it
MainModelRaises ==
    /\ pc = "main_loop"
    /\ i <= Len(ann)
    /\ MainReachesModel
    /\ pc' = "raised"
    /\ hist' = [ hist EXCEPT !.sentModel = Append(@, i),
                             !.sentText = Append(@, IF mode = "word" THEN MainRecord.text
                                                    ELSE plain_transcription(MainRecord.text)),
                             !.fault = "model", !.raised = TRUE ]
    /\ UNCHANGED << ann, audio, disk, runs, tee, last_processed_file, start_processing,
                    processed_lines, i, rec, hyp_text, evaluator, printed, env,
                    parseVars, mainVars, fnVars >>

\* lines 153-180: the summary after the sweep
MainFinish ==
    /\ pc = "main_loop"
    /\ i > Len(ann)
    /\ pc' = "done"
    /\ printed' = printed \o
         (IF mode = "external" THEN << >>
          ELSE IF processed_lines > 0
          THEN << << T("-") >>, << T("done") >>,
                  << T("lines processed: "), Num(processed_lines) >>,
                  << T("averages") >>, << T("-") >> >>
          ELSE << << T("no valid data lines") >> >>)
    /\ UNCHANGED << ann, audio, disk, runs, tee, last_processed_file, start_processing,
                    processed_lines, i, rec, hyp_text, evaluator, hist, env,
                    parseVars, mainVars, fnVars >>

NextMain ==
    \/ MainSkip
    \/ MainWord
    \/ MainInterval
    \/ MainModelRaises
    \/ MainFinish

SpecMain == InitMain /\ [][NextMain]_vars

(***************************************************************************)
(* parse_log_file on its own: a log of up to MaxLogLen lines is read once. *)
(***************************************************************************)

LogLines ==
    { << FileLabel >> \o NameA,
      << SP, FileLabel >> \o NameA \o << SP >>,
      << FileLabel >> \o NameB,
      << FileLabel >> \o NameC,
      << FileLabel, DotWav >>,
      << T("error: audio file not found at ") >> \o NameA,
      << SP, T("GT"), Sep, T("x") >>,
      << RecallKey, Sep, Num(Scale) >>,
      << RecallKey, Sep, Num(Scale \div 2) >>,
      << PrecKey, Sep, Num(Scale) >>,
      << PrecKey, Sep, Num(Scale \div 2) >>,
      << PrecKey, Sep, T("x") >>,
      << RollBare, T("x") >> }

Logs == UNION { [ 1..n -> LogLines ] : n \in 0..MaxLogLen }

\* the driver is not running
DriverIdle ==
    /\ ann = << >>
    /\ audio = {}
    /\ disk = [ exists |-> FALSE, lines |-> << >> ]
    /\ runs = 0
    /\ tee = FALSE
    /\ last_processed_file = None
    /\ start_processing = FALSE
    /\ processed_lines = 0
    /\ i = 1
    /\ rec = NoRecord
    /\ hyp_text = << >>
    /\ evaluator = NewEvaluator
    /\ printed = << >>
    /\ hist = NewHist
    /\ env = [ canOpen |-> TRUE, canRead |-> TRUE, annFound |-> TRUE, evalLoads |-> TRUE ]

InitParse ==
    /\ DriverIdle
    /\ MainIdle
    /\ FnIdle
    /\ pc = "unparsed"
    /\ plog \in Logs
    /\ parsed = NoCheckpoint

ParseLog ==
    /\ pc = "unparsed"
    /\ parsed' = parse_log_file(plog)
    /\ pc' = "parsed"
    /\ UNCHANGED << ann, audio, disk, runs, tee, last_processed_file, start_processing,
                    processed_lines, i, rec, hyp_text, evaluator, printed, hist, env, plog,
                    mainVars, fnVars >>

NextParse == ParseLog

SpecParse == InitParse /\ [][NextParse]_vars

(***************************************************************************)
(* The marker on its own: mark_words_in_text is called once with a text    *)
(* and two word lists that hold the same words, or                         *)
(* process_line_to_ground_truth is called once with a line, in interval    *)
(* mode, or in both modes on a line with a raw dialect field of any shape. *)
(***************************************************************************)

MaxText == 3     \* characters of a text handed to the marker
MaxWords == 2    \* words of a word list handed to the marker

Alphabet == { T("a"), T("b") }

MarkTexts == UNION { [ 1..n -> Alphabet ] : n \in 0..MaxText }

\* the dialect words: non-empty, as line 56 leaves them
MarkWords == { << T("a") >>, << T("b") >>, << T("a"), T("b") >>, << T("b"), T("b") >> }

WordLists == UNION { [ 1..n -> MarkWords ] : n \in 0..MaxWords }

MarkCalls ==
    { [ fn |-> "mark", text |-> t, words |-> w, again |-> v ] :
        t \in MarkTexts,
        w \in WordLists,
        v \in WordLists }

\* ",".join(words)
RECURSIVE JoinWords(_)
JoinWords(words) ==
    IF words = << >> THEN << >>
    ELSE IF Len(words) = 1 THEN Head(words)
    ELSE Head(words) \o << Comma >> \o JoinWords(Tail(words))

\* the third field of an annotation line, as the data writes it
DialectFieldOf(words, left, right) == << left >> \o JoinWords(words) \o << right >>

LineCalls ==
    { [ fn |-> "line",
        line |-> NameA \o << TAB >> \o t \o << TAB >> \o DialectFieldOf(w, b[1], b[2]),
        text |-> t, words |-> w ] :
        t \in MarkTexts,
        w \in WordLists,
        b \in { << LB, RB >>, << LBrace, RBrace >> } }

MaxField == 3    \* characters of a raw dialect field of any shape

\* raw dialect fields: words, both commas, brackets and braces anywhere
RawFields ==
    UNION { [ 1..n -> { T("a"), T("b"), Comma, T(",,"), LB, RBrace } ] : n \in 1..MaxField }

\* transcriptions for them, one with a fullwidth comma in it
FieldTexts ==
    { << T("a"), T("b") >>, << T("a"), T(",,"), T("b") >>, << T("b"), T("b"), T("a") >> }

FieldCalls ==
    { [ fn |-> "field", line |-> NameA \o << TAB >> \o t \o << TAB >> \o f,
        text |-> t, field |-> f ] :
        t \in FieldTexts,
        f \in RawFields }

InitMark ==
    /\ DriverIdle
    /\ MainIdle
    /\ plog = << >>
    /\ parsed = NoCheckpoint
    /\ pc = "call"
    /\ args \in { c \in MarkCalls : Range(c.words) = Range(c.again) } \cup LineCalls
                 \cup FieldCalls
    /\ result = NoCall

\* mark_words_in_text(text, words) and mark_words_in_text(text, again), each
\* with one of the orders in which its set of words may be iterated
CallMark ==
    /\ pc = "call"
    /\ args.fn = "mark"
    /\ \E o1 \in Orders(args.words), o2 \in Orders(args.again) :
         result' = [ fn |-> "mark",
                     out |-> MarkInOrder(args.text, o1, LB, RB),
                     again |-> MarkInOrder(args.text, o2, LB, RB),
                     intervals |-> SortPairs(IntervalsToMark(args.text, o1)) ]
    /\ pc' = "returned"
    /\ UNCHANGED << ann, audio, disk, runs, tee, last_processed_file, start_processing,
                    processed_lines, i, rec, hyp_text, evaluator, printed, hist, env,
                    parseVars, mainVars, args >>

\* process_line_to_ground_truth(line, use_word_comparison=False) of
\* utils/text_processing.py, and the copy of dialect_iou.py on the same line
CallLine ==
    /\ pc = "call"
    /\ args.fn = "line"
    /\ result' = [ fn |-> "line",
                   out |-> process_line_to_ground_truth(args.line, FALSE),
                   standalone |-> dialect_iou_process_line(args.line) ]
    /\ pc' = "returned"
    /\ UNCHANGED << ann, audio, disk, runs, tee, last_processed_file, start_processing,
                    processed_lines, i, rec, hyp_text, evaluator, printed, hist, env,
                    parseVars, mainVars, args >>

\* process_line_to_ground_truth(line, use_word_comparison) in both modes, the
\* copy of dialect_iou.py, and the words line 56 hands to the marker
CallField ==
    /\ pc = "call"
    /\ args.fn = "field"
    /\ result' = [ fn |-> "field",
                   word_mode |-> process_line_to_ground_truth(args.line, TRUE),
                   interval_mode |-> process_line_to_ground_truth(args.line, FALSE),
                   standalone |-> dialect_iou_process_line(args.line),
                   searched |-> dialect_words(args.field) ]
    /\ pc' = "returned"
    /\ UNCHANGED << ann, audio, disk, runs, tee, last_processed_file, start_processing,
                    processed_lines, i, rec, hyp_text, evaluator, printed, hist, env,
                    parseVars, mainVars, args >>

NextMark ==
    \/ CallMark
    \/ CallLine
    \/ CallField

SpecMark == InitMark /\ [][NextMark]_vars

(***************************************************************************)
(* calculate_text_iou on its own: it is called once on two markup strings, *)
(* and once more with the two swapped; the two index sets it extracts are  *)
(* kept as well.                                                           *)
(***************************************************************************)

MaxMarkup == 4   \* characters of a markup string, the "<" and ">" included

MarkupStrings == UNION { [ 1..n -> { T("a"), LT, GT } ] : n \in 0..MaxMarkup }

InitIou ==
    /\ DriverIdle
    /\ MainIdle
    /\ plog = << >>
    /\ parsed = NoCheckpoint
    /\ pc = "call"
    /\ args \in [ fn : { "iou" }, gt : MarkupStrings, hyp : MarkupStrings ]
    /\ result = NoCall

CallIou ==
    /\ pc = "call"
    /\ args.fn = "iou"
    /\ result' = [ fn |-> "iou",
                   out |-> calculate_text_iou(args.gt, args.hyp),
                   swapped |-> calculate_text_iou(args.hyp, args.gt),
                   gt_indices |-> extract_char_indices(args.gt),
                   hyp_indices |-> extract_char_indices(args.hyp) ]
    /\ pc' = "returned"
    /\ UNCHANGED << ann, audio, disk, runs, tee, last_processed_file, start_processing,
                    processed_lines, i, rec, hyp_text, evaluator, printed, hist, env,
                    parseVars, mainVars, args >>

NextIou == CallIou

SpecIou == InitIou /\ [][NextIou]_vars

(***************************************************************************)
(* calculate_word_metrics on its own: it is called once on two word        *)
(* strings, and on the same strings with the hypothesis' ASCII commas      *)
(* made fullwidth, with the repeated words dropped, and with the words in  *)
(* reverse order.                                                          *)
(***************************************************************************)

MaxWordText == 3   \* characters of a word string; a word is one character

\* the ground-truth words come from the trimmed third field of a line; the
\* hypothesis is what the model wrote, blanks included
GtWordStrings ==
    UNION { [ 1..n -> { T("y"), T("z"), Comma, FWComma } ] : n \in 0..MaxWordText }

HypWordStrings ==
    UNION { [ 1..n -> { T("y"), T("z"), Comma, FWComma, SP } ] : n \in 0..MaxWordText }

\* the pieces of a word string between its commas, ASCII or fullwidth
RECURSIVE Pieces(_, _)
Pieces(text, cur) ==
    IF text = << >> THEN << cur >>
    ELSE IF Head(text) \in { Comma, FWComma } THEN << cur >> \o Pieces(Tail(text), << >>)
    ELSE Pieces(Tail(text), Append(cur, Head(text)))

\* the comma a word string uses: its first one, the ASCII one without any
CommaOf(text) ==
    IF \E k \in 1..Len(text) : text[k] \in { Comma, FWComma }
    THEN text[Min({ k \in 1..Len(text) : text[k] \in { Comma, FWComma } })]
    ELSE Comma

RECURSIVE JoinWith(_, _)
JoinWith(pieces, sep) ==
    IF pieces = << >> THEN << >>
    ELSE IF Len(pieces) = 1 THEN Head(pieces)
    ELSE Head(pieces) \o << sep >> \o JoinWith(Tail(pieces), sep)

RECURSIVE Reverse(_)
Reverse(q) == IF q = << >> THEN << >> ELSE Append(Reverse(Tail(q)), Head(q))

\* the list without the later occurrences of a word (trimmed) it holds already
RECURSIVE DropLater(_, _)
DropLater(pieces, seen) ==
    IF pieces = << >> THEN << >>
    ELSE IF Strip(Head(pieces)) \in seen THEN DropLater(Tail(pieces), seen)
    ELSE << Head(pieces) >> \o DropLater(Tail(pieces), seen \cup { Strip(Head(pieces)) })

\* the same words, each once; the same words in reverse order
WithoutRepeats(text) == JoinWith(DropLater(Pieces(text, << >>), {}), CommaOf(text))
Reordered(text) == JoinWith(Reverse(Pieces(text, << >>)), CommaOf(text))

InitWords ==
    /\ DriverIdle
    /\ MainIdle
    /\ plog = << >>
    /\ parsed = NoCheckpoint
    /\ pc = "call"
    /\ args \in [ fn : { "words" }, gt : GtWordStrings, hyp : HypWordStrings ]
    /\ result = NoCall

CallWords ==
    /\ pc = "call"
    /\ args.fn = "words"
    /\ result' =
         [ fn |-> "words",
           out |-> calculate_word_metrics(args.gt, args.hyp),
           unified |-> calculate_word_metrics(args.gt, ReplaceCommas(args.hyp)),
           once |-> calculate_word_metrics(WithoutRepeats(args.gt), WithoutRepeats(args.hyp)),
           reordered |-> calculate_word_metrics(Reordered(args.gt), Reordered(args.hyp)) ]
    /\ pc' = "returned"
    /\ UNCHANGED << ann, audio, disk, runs, tee, last_processed_file, start_processing,
                    processed_lines, i, rec, hyp_text, evaluator, printed, hist, env,
                    parseVars, mainVars, args >>

NextWords == CallWords

SpecWords == InitWords /\ [][NextWords]_vars

(***************************************************************************)
(* The model adapters (models/qwen_model.py, kimi_model.py, step_model.py):*)
(* process(audio_path, transcription) is called once.  The inference       *)
(* backend is outside the repository: it either raises, or it answers with *)
(* a transcript and a comma-separated word list.                           *)
(***************************************************************************)

Quote == T("'")
AudioNotFound == T("[error: audio file not found] ")

Adapters == { "QwenAudioModel", "KimiAudioModel", "StepAudioModel" }

\* [w.strip() for w in re.split(r"[,<fullwidth comma>]", text) if w.strip()]
StrippedWords(text) ==
    NonEmpty([ k \in 1..Len(Pieces(text, << >>)) |-> Strip(Pieces(text, << >>)[k]) ])

\* what a call leaves: it raised, or it returned out
Raised == [ raised |-> TRUE, out |-> << >> ]
Returned(text) == [ raised |-> FALSE, out |-> text ]

\* qwen_model.py 32-101; the try around the body is commented out (39, 99-100)
QwenAudioModel_process(audio_exists, transcription, inference) ==
    LET asr_text == IF inference.asr = << >> THEN transcription ELSE inference.asr
        asr_text_ == IF Len(Split(asr_text, Quote)) >= 2 THEN Split(asr_text, Quote)[2]
                     ELSE asr_text
    IN  IF ~audio_exists THEN Returned(<< AudioNotFound >> \o transcription)
        ELSE IF ~inference.ok THEN Raised
        ELSE Returned(mark_words_in_text(asr_text_, StrippedWords(inference.words), LB, RB))

\* kimi_model.py 49-101; the try around the body is commented out (56, 99-101)
KimiAudioModel_process(audio_exists, transcription, inference) ==
    LET asr_text == IF inference.asr = << >> THEN transcription ELSE inference.asr
    IN  IF ~audio_exists THEN Returned(<< AudioNotFound >> \o transcription)
        ELSE IF ~inference.ok THEN Raised
        ELSE Returned(mark_words_in_text(asr_text, StrippedWords(inference.words), LB, RB))

\* step_model.py 62-115; asr_text_ is cut from the answer before the empty
\* answer is replaced (84-87), and there is no try
StepAudioModel_process(audio_exists, transcription, inference) ==
    LET asr_text_ == Split(inference.asr, GT)[Len(Split(inference.asr, GT))]
    IN  IF ~audio_exists THEN Returned(<< AudioNotFound >> \o transcription)
        ELSE IF ~inference.ok THEN Raised
        ELSE Returned(mark_words_in_text(asr_text_, StrippedWords(inference.words), LB, RB))

\* what the backend may answer
AsrTexts ==
    { << >>, << T("a"), T("b") >>, << Quote, T("a"), T("b"), Quote >>,
      << LT, T("zh"), GT, T("a"), T("b") >> }

WordTexts == { << >>, << T("b") >>, << T("a"), FWComma, SP, T("b") >> }

Inferences == [ ok : BOOLEAN, asr : AsrTexts, words : WordTexts ]

InitAdapter ==
    /\ DriverIdle
    /\ MainIdle
    /\ plog = << >>
    /\ parsed = NoCheckpoint
    /\ pc = "call"
    /\ args \in [ fn : { "process" }, adapter : Adapters, audio_exists : BOOLEAN,
                  transcription : { t \in MarkTexts : Len(t) >= 1 },
                  inference : Inferences ]
    /\ result = NoCall

CallProcess ==
    /\ pc = "call"
    /\ args.fn = "process"
    /\ result' =
         [ fn |-> "process",
           ret |-> IF args.adapter = "QwenAudioModel"
                   THEN QwenAudioModel_process(args.audio_exists, args.transcription,
                                               args.inference)
                   ELSE IF args.adapter = "KimiAudioModel"
                   THEN KimiAudioModel_process(args.audio_exists, args.transcription,
                                               args.inference)
                   ELSE StepAudioModel_process(args.audio_exists, args.transcription,
                                               args.inference) ]
    /\ pc' = "returned"
    /\ UNCHANGED << ann, audio, disk, runs, tee, last_processed_file, start_processing,
                    processed_lines, i, rec, hyp_text, evaluator, printed, hist, env,
                    parseVars, mainVars, args >>

NextAdapter == CallProcess

SpecAdapter == InitAdapter /\ [][NextAdapter]_vars

(***************************************************************************)
(* Properties of the marker                                                *)
(***************************************************************************)

\* word is a substring of text
Occurs(word, text) ==
    \E p \in 0..(Len(text) - Len(word)) : SubSeq(text, p + 1, p + Len(word)) = word

\* C11: for a well-formed line, process_line_to_ground_truth in interval mode
\* returns the line's filename and the transcription with the occurrences of
\* the dialect words wrapped in "<" and ">".
C11_IntervalModeAngleBrackets ==
    (pc = "returned" /\ result.fn = "line") =>
        /\ result.out.filename = NameA
        /\ result.out.text = mark_words_in_text(args.text, args.words, LT, GT)
        /\ result.standalone.filename = NameA
        /\ result.standalone.text = mark_words_in_text(args.text, args.words, LT, GT)

\* C12: mark_words_in_text returns the text as it is when the word list is
\* empty and when none of its words occurs in the text.
C12_MarkerNoOp ==
    ( /\ pc = "returned" /\ result.fn = "mark"
      /\ \A k \in 1..Len(args.words) : ~Occurs(args.words[k], args.text) ) =>
        result.out = args.text

C12_Witness ==
    /\ pc = "returned" /\ result.fn = "mark"
    /\ Len(args.words) = MaxWords
    /\ Len(args.text) = MaxText
    /\ \A k \in 1..Len(args.words) : ~Occurs(args.words[k], args.text)
    /\ result.out = args.text

\* C13: two word lists that hold the same words, whatever the repetitions and
\* the order, and whatever the order in which the set is iterated, give the
\* same marked text.
C13_MarkerSetSemantics ==
    (pc = "returned" /\ result.fn = "mark") => result.out = result.again

C13_Witness ==
    /\ pc = "returned" /\ result.fn = "mark"
    /\ args.words # args.again
    /\ Cardinality(Range(args.words)) = 2
    /\ Len(result.intervals) >= 2
    /\ result.out = result.again

\* C14: the intervals mark_words_in_text wraps do not overlap in the index
\* space of the unmarked text and are spliced in ascending start order.
C14_IntervalsDisjointAscending ==
    (pc = "returned" /\ result.fn = "mark") =>
        \A j, k \in 1..Len(result.intervals) :
            j < k => /\ result.intervals[j][1] <= result.intervals[k][1]
                     /\ result.intervals[j][2] <= result.intervals[k][1]

\* C28: for a text that holds neither bracket character and any word list,
\* the marked text without the inserted brackets is the text again: the same
\* characters, as many as before.
C28_MarkerRoundTrip ==
    (pc = "returned" /\ result.fn = "mark") =>
        /\ SelectSeq(result.out, LAMBDA t : t \notin { LB, RB }) = args.text
        /\ Cardinality({ k \in 1..Len(result.out) : result.out[k] \notin { LB, RB } })
             = Len(args.text)

\* the raw field without the bracket pair and the braces
Unbracketed(field) == SelectSeq(field, LAMBDA t : t \notin { LB, RB, LBrace, RBrace })

\* C24: for a well-formed line, process_line_to_ground_truth in word-set mode
\* returns the filename, the transcription as it is (no word is searched, no
\* mark is put), and the raw dialect field with the bracket pair and the
\* braces removed and nothing else changed.
C24_WordModeGroundTruth ==
    (pc = "returned" /\ result.fn = "field") =>
        /\ result.word_mode.filename = NameA
        /\ result.word_mode.text = args.text
        /\ result.word_mode.words = Unbracketed(args.field)

C24_Witness ==
    /\ pc = "returned" /\ result.fn = "field"
    /\ Len(args.field) = MaxField
    /\ \E k \in 1..Len(args.field) : args.field[k] = RBrace
    /\ \E k \in 1..Len(args.field) : args.field[k] = Comma
    /\ result.interval_mode.text # args.text
    /\ result.word_mode.text = args.text
    /\ result.word_mode.words = Unbracketed(args.field)

\* the tokens of a raw field: the maximal stretches, free of ASCII commas and
\* not empty, of the field without the bracket pair and the braces
TokensOf(field) ==
    LET clean == Unbracketed(field)
        IsToken(from, to) ==
            /\ from <= to
            /\ \A k \in from..to : clean[k] # Comma
            /\ from = 1 \/ clean[from - 1] = Comma
            /\ to = Len(clean) \/ clean[to + 1] = Comma
    IN  { SubSeq(clean, x[1], x[2]) :
            x \in { y \in (1..Len(clean)) \X (1..Len(clean)) : IsToken(y[1], y[2]) } }

\* C27: in interval mode the builder removes the bracket pair and the braces
\* from the raw dialect field, splits the rest at the ASCII commas only (a
\* fullwidth comma stays inside its token), drops the empty tokens, and
\* searches the transcription for exactly those tokens.
C27_FieldTokenization ==
    (pc = "returned" /\ result.fn = "field") =>
        /\ Range(result.searched) = TokensOf(args.field)
        /\ result.interval_mode.text =
             MarkInOrder(args.text, SetToSeq(TokensOf(args.field)), LB, RB)
        /\ result.standalone.text =
             MarkInOrder(args.text, SetToSeq(TokensOf(args.field)), LT, GT)

C27_Witness ==
    /\ pc = "returned" /\ result.fn = "field"
    /\ args.field = << T("a"), T(",,"), T("b") >>
    /\ result.searched = << << T("a"), T(",,"), T("b") >> >>
    /\ result.interval_mode.text = << LB, T("a"), T(",,"), T("b"), RB >>

(***************************************************************************)
(* Properties of parse_log_file                                            *)
(***************************************************************************)

\* a line that, trimmed, begins with the label and ends with ".wav"
AnnouncesRecord(line) ==
    LET t == Strip(line) IN Len(t) >= 1 /\ t[1] = FileLabel /\ t[Len(t)] = DotWav

\* the text after the label on such a line
FilenameOn(line) == Tail(Strip(line))

Announcing == { k \in 1..Len(plog) : AnnouncesRecord(plog[k]) }

\* such lines with at least one character between the label and ".wav"
AnnouncingNamed == { k \in Announcing : Len(FilenameOn(plog[k])) >= 2 }

\* C5, as stated: processed_count is the number of lines that begin with the
\* label and end with ".wav"; last_processed_file is the filename on the last
\* such line, None when there is none.
C5_CountAndLastLine ==
    pc = "parsed" =>
        /\ parsed.processed_count = Cardinality(Announcing)
        /\ parsed.last_processed_file =
               IF Announcing = {} THEN None ELSE FilenameOn(plog[Max(Announcing)])

\* C5, amended: processed_count is the number of lines that begin with the
\* label and end with ".wav"; last_processed_file is the filename on the last
\* such line that has at least one character between the label and the
\* ".wav" suffix, None when there is no such line.
C5_CountAndLastNamedLine ==
    pc = "parsed" =>
        /\ parsed.processed_count = Cardinality(Announcing)
        /\ parsed.last_processed_file =
               IF AnnouncingNamed = {} THEN None
               ELSE FilenameOn(plog[Max(AnnouncingNamed)])

C5_Witness ==
    /\ pc = "parsed"
    /\ parsed.processed_count = 2
    /\ Len(plog) = 3
    /\ parsed.last_processed_file = NameB

\* C6: the rolling values are read from the block that begins at the last
\* line holding the marker "rolling_recall_avg :".
C6_BlockOfLastMarker ==
    (pc = "parsed" /\ MarkerLines(plog) # {}) =>
        parsed.rolling_values = ScanBlock(plog, Max(MarkerLines(plog)), EmptyDict)

\* the line, trimmed, begins with "rolling_"
BeginsRolling(line) == Strip(line) # << >> /\ Strip(line)[1] \in { RecallKey, PrecKey, RollBare }

\* the positions of " : " in the trimmed line
SepsOf(line) == { k \in 1..Len(Strip(line)) : Strip(line)[k] = Sep }

\* the line has the shape "rolling_<name> : <float>"
HasShape(line) ==
    /\ BeginsRolling(line)
    /\ Cardinality(SepsOf(line)) = 1
    /\ LET after == Strip(SubSeq(Strip(line), Min(SepsOf(line)) + 1, Len(Strip(line))))
       IN  Len(after) = 1 /\ after[1].s = "#"

NameOn(line) == Strip(SubSeq(Strip(line), 1, Min(SepsOf(line)) - 1))
ValueOn(line) == Strip(line)[Len(Strip(line))].v

\* the mapping read from the lines of the set S: each name with the value of
\* the last line of S that gives it
ValuesOf(S) ==
    [ name \in { NameOn(plog[k]) : k \in { n \in S : HasShape(plog[n]) } } |->
        ValueOn(plog[Max({ k \in S : HasShape(plog[k]) /\ NameOn(plog[k]) = name })]) ]

\* the first position from `from` on whose line fails the test, or the end
FirstFailing(from, Test(_)) ==
    Min({ k \in from..(Len(plog) + 1) : k = Len(plog) + 1 \/ ~Test(plog[k]) })

\* C25, as stated: from the line where the scan starts, parse_log_file
\* collects each consecutive line of the shape "rolling_<name> : <float>" and
\* stops at the first line that has not that shape.
C25_StopsAtFirstUnshaped ==
    (pc = "parsed" /\ MarkerLines(plog) # {}) =>
        parsed.rolling_values =
            ValuesOf(BlockStart(plog)..(FirstFailing(BlockStart(plog), HasShape) - 1))

\* C25, amended: from the line where the scan starts, parse_log_file collects
\* each line of the shape "rolling_<name> : <float>", passes over the lines
\* that begin with "rolling_" without having the shape, and stops at the first
\* line that does not begin with "rolling_"; no value of a later line is
\* collected.
C25_StopsAtFirstNonRolling ==
    (pc = "parsed" /\ MarkerLines(plog) # {}) =>
        parsed.rolling_values =
            ValuesOf(BlockStart(plog)..(FirstFailing(BlockStart(plog), BeginsRolling) - 1))

C25_Witness ==
    /\ pc = "parsed"
    /\ Len(plog) = 3
    /\ HasShape(plog[1]) /\ HasMarker(plog[1])
    /\ BeginsRolling(plog[2]) /\ ~HasShape(plog[2])
    /\ HasShape(plog[3]) /\ NameOn(plog[3]) = KeyPrec
    /\ DOMAIN parsed.rolling_values = { KeyRecall, KeyPrec }

(***************************************************************************)
(* Properties of run_evaluation_with_checkpoint                            *)
(***************************************************************************)

IsPrefix(a, b) == Len(a) <= Len(b) /\ SubSeq(b, 1, Len(a)) = a

\* the filename of the k-th annotation line; empty for a blank or malformed line
Fname(k) == process_line_to_ground_truth(ann[k], FALSE).filename

\* a well-formed record whose audio file exists
Processable(k) == Fname(k) # << >> /\ Fname(k) \in audio

Named(X) == { k \in 1..Len(ann) : Fname(k) = X }

\* the records a sweep resumed from the checkpoint X has to handle, in file order
ExpectedAfter(X) ==
    IF X = None THEN AscendingSeq({ k \in 1..Len(ann) : Processable(k) })
    ELSE IF Named(X) = {} THEN << >>
    ELSE AscendingSeq({ k \in 1..Len(ann) : Processable(k) /\ k > Min(Named(X)) })

\* this run reached the for loop, so last_processed_file is its checkpoint
Swept ==
    \/ pc \in Running \cup { "done", "killed" }
    \/ pc = "raised" /\ hist.fault \in { "model", "evaluator" }

NoDuplicateNames ==
    \A k, m \in 1..Len(ann) : (k # m /\ Fname(k) # << >>) => Fname(k) # Fname(m)

C2_ResumeEquivalence ==
    ( /\ pc \in { "loop", "done" }
      /\ hist.cleanStops /\ ~hist.raised
      /\ env.canOpen /\ env.canRead /\ NoDuplicateNames ) =>
        evaluator = hist.ideal

\* C3: over runs interrupted at any step, the _rolling_count restored at a
\* restart is the number of records the evaluator has scored so far, no record
\* is scored twice, and a sweep that ends has scored every record with
\* existing audio exactly once.
C3_NeverSkipNeverDouble ==
    ( env.canOpen /\ env.canRead /\ NoDuplicateNames /\ ~hist.raised ) =>
        /\ pc \in Running => hist.restored = hist.scoredBefore
        /\ \A k \in 1..Len(ann) : hist.scored[k] <= 1
        /\ pc = "done" => \A k \in 1..Len(ann) : Processable(k) => hist.scored[k] = 1

\* C4: a run that finds no checkpoint starts at the first record and scores
\* every record with existing audio.
C4_FreshStart ==
    ( /\ hist.fresh /\ env.annFound /\ env.evalLoads
      /\ pc \in { "done", "raised" }
      /\ hist.fault \in { "none", "unpack" } ) =>
        \A k \in 1..Len(ann) : Processable(k) => k \in Range(hist.sentEval)

C8_FailureContained ==
    (pc = "raised" /\ hist.fault = "evaluator") =>
        \A k \in (i + 1)..Len(ann) : Processable(k) => k \in Range(hist.sentModel)

\* C30: when the log yields a last_processed_file that is the filename of no
\* record of the annotation list, the run never starts processing: no record
\* is handed to the model or to the evaluator, and the run reports 0
\* processed lines.
C30_UnmatchedCheckpoint ==
    (Swept /\ last_processed_file # None /\ Named(last_processed_file) = {}) =>
        /\ ~start_processing
        /\ hist.sentModel = << >>
        /\ hist.sentEval = << >>
        /\ processed_lines = 0
        /\ pc \in { "loop", "done", "killed" }
        /\ pc = "done" =>
             \E k \in 1..Len(printed) :
                 printed[k] = << T("lines processed in this run: "), Num(0) >>

C30_Witness ==
    /\ pc = "done"
    /\ last_processed_file = NameD
    /\ Cardinality({ k \in 1..Len(ann) : Processable(k) }) >= 2
    /\ hist.sentModel = << >>
    /\ processed_lines = 0

\* C23: when the log file is missing or reading it raises, parse_log_file
\* does not raise and reports no checkpoint: last_processed_file is None, the
\* count restored is 0 and no rolling value is restored, so the evaluator is
\* that of a sweep from scratch; and the driver hands the records to the
\* model and to the evaluator from the first one on.
C23_ParseFailureStartsFresh ==
    (hist.parseFailed /\ Swept) =>
        /\ hist.fault \in { "none", "model", "evaluator" }
        /\ last_processed_file = None
        /\ hist.restored = 0
        /\ evaluator = hist.ideal
        /\ IsPrefix(hist.sentModel, ExpectedAfter(None))
        /\ IsPrefix(hist.sentEval, hist.sentModel)
        /\ pc = "done" => hist.sentEval = ExpectedAfter(None)

C23_Witness ==
    /\ hist.parseFailed
    /\ ~env.canRead
    /\ \E k \in 1..Len(disk.lines) : IsRecordLine(disk.lines[k])
    /\ pc = "done"
    /\ Len(hist.sentEval) >= 2
    /\ hist.sentModel[1] = 1

(***************************************************************************)
(* Properties of run_evaluation                                            *)
(***************************************************************************)

\* C9: in every scoring mode a record whose audio file is missing is not
\* handed to the model, adds nothing to the running sums and is not counted
\* in processed_lines.
C9_MissingAudioSkipped ==
    /\ \A k \in Range(hist.sentModel) : Fname(k) \in audio
    /\ processed_lines <= Cardinality({ k \in 1..(i - 1) : Processable(k) })

\* the number of tab-separated fields of a line, the line trimmed first
RECURSIVE CountTabs(_)
CountTabs(text) ==
    IF text = << >> THEN 0
    ELSE (IF Head(text) = TAB THEN 1 ELSE 0) + CountTabs(Tail(text))

Malformed(line) == Strip(line) # << >> /\ CountTabs(Strip(line)) + 1 # 3

\* C10: for a line that does not split into exactly 3 tab-separated fields,
\* process_line_to_ground_truth returns a sentinel with an empty filename, and
\* the driver passes over the line: its accumulators stay as they are, the
\* model is not called, and the sweep goes on with the next line.
C10_MalformedLineSkipped ==
    [][ (pc = "main_loop" /\ i <= Len(ann) /\ Malformed(ann[i])) =>
          /\ process_line_to_ground_truth(ann[i], mode = "word").filename = << >>
          /\ pc' = "main_loop"
          /\ i' = i + 1
          /\ totals' = totals
          /\ processed_lines' = processed_lines
          /\ evaluator' = evaluator
          /\ hist'.sentModel = hist.sentModel ]_vars

C10_Witness ==
    /\ pc = "done"
    /\ \E k \in 1..Len(ann) :
         /\ Malformed(ann[k])
         /\ \E m \in Range(hist.sentModel) : m > k

\* the plain transcription field of the k-th annotation line
TranscriptionOf(k) == Split(Strip(ann[k]), TAB)[2]

\* C21: in the interval-mode drivers the text handed to model.process for a
\* record is that record's plain transcription field and holds no marker
\* character, whatever the record's dialect-word field is.
C21_ModelInputIsPlainText ==
    mode # "word" =>
        \A k \in 1..Len(hist.sentModel) :
            /\ hist.sentText[k] = TranscriptionOf(hist.sentModel[k])
            /\ \A t \in Range(hist.sentText[k]) : t \notin { LB, RB, LT, GT }

(***************************************************************************)
(* Properties of the model adapters                                        *)
(***************************************************************************)

\* C22: process(audio_path, transcription) of every adapter never raises, and
\* when the audio file is missing or the inference fails it returns the
\* transcription it was given, unchanged.
C22_ProcessFallsBack ==
    (pc = "returned" /\ result.fn = "process") =>
        /\ ~result.ret.raised
        /\ (~args.audio_exists \/ ~args.inference.ok)
             => result.ret.out = args.transcription

(***************************************************************************)
(* Properties of calculate_text_iou                                        *)
(***************************************************************************)

\* the characters of a markup string that are not "<" or ">"
PlainAt(text) == { k \in 1..Len(text) : text[k] \notin {LT, GT} }

\* the 0-based positions, in the text without its marks, of the characters
\* that stand after a "<" with no ">" in between
MarkedSet(text) ==
    { Cardinality({ j \in PlainAt(text) : j < k }) :
        k \in { n \in PlainAt(text) :
                  \E o \in 1..(n - 1) :
                      text[o] = LT /\ \A x \in (o + 1)..(n - 1) : text[x] # GT } }

\* C15: calculate_text_iou returns |intersection| / |union| of the two marked
\* index sets, a value in [0,1]; 1.0 when neither string has a marked
\* character, 0.0 when exactly one of them has.
C15_IouValueAndBoundaries ==
    (pc = "returned" /\ result.fn = "iou") =>
        LET G == MarkedSet(args.gt)
            H == MarkedSet(args.hyp)
        IN  /\ 0 <= result.out[1] /\ result.out[1] <= result.out[2]
            /\ result.out[1] * Cardinality(G \cup H) = result.out[2] * Cardinality(G \cap H)
                 \/ (G \cup H = {} /\ result.out = One)
            /\ (G = {} /\ H = {}) => result.out = One
            /\ ((G = {}) # (H = {})) => result.out = Zero
            /\ (args.gt = << >> /\ args.hyp = << >>) => result.out = One
            /\ (args.gt = << LT, T("a"), GT >> /\ args.hyp = << T("a") >>)
                 => result.out = Zero

C15_Witness ==
    /\ pc = "returned" /\ result.fn = "iou"
    /\ result.out = << 1, 2 >>
    /\ Len(args.gt) = MaxMarkup

\* C16: for two marked strings with equal plain-text length, the IoU of
\* (a, b) is the IoU of (b, a).
C16_IouSymmetric ==
    ( /\ pc = "returned" /\ result.fn = "iou"
      /\ Cardinality(PlainAt(args.gt)) = Cardinality(PlainAt(args.hyp)) ) =>
        result.out = result.swapped

C16_Witness ==
    /\ pc = "returned" /\ result.fn = "iou"
    /\ Cardinality(PlainAt(args.gt)) = Cardinality(PlainAt(args.hyp))
    /\ MarkedSet(args.gt) # MarkedSet(args.hyp)
    /\ MarkedSet(args.gt) \cap MarkedSet(args.hyp) # {}
    /\ result.out = result.swapped

\* C26: _extract_char_indices returns exactly the positions, counted in the
\* text without its "<" and ">", of the characters read while the markup flag
\* is set ("<" sets it, ">" clears it); "<" and ">" are never in the result
\* and do not advance the position, every other character advances it by one.
C26_MarkedIndexExtraction ==
    (pc = "returned" /\ result.fn = "iou") =>
        /\ result.gt_indices = MarkedSet(args.gt)
        /\ result.hyp_indices = MarkedSet(args.hyp)
        /\ result.gt_indices \subseteq 0..(Cardinality(PlainAt(args.gt)) - 1)
        /\ result.hyp_indices \subseteq 0..(Cardinality(PlainAt(args.hyp)) - 1)

C26_Witness ==
    /\ pc = "returned" /\ result.fn = "iou"
    /\ args.gt = << T("a"), LT, T("a"), GT >>
    /\ result.gt_indices = { 1 }
    /\ args.hyp = << LT, T("a"), LT, T("a") >>
    /\ result.hyp_indices = { 0, 1 }

(***************************************************************************)
(* Properties of the IoU path of run_evaluation                            *)
(***************************************************************************)

\* the raw dialect field of the k-th annotation line
DialectFieldAt(k) == Split(Strip(ann[k]), TAB)[3]

\* the 0-based positions of the transcription of line k that an occurrence of
\* one of its dialect words covers
GroundTruthSet(k) ==
    { p \in 0..(Len(TranscriptionOf(k)) - 1) :
        \E w \in TokensOf(DialectFieldAt(k)) :
            \E q \in 0..p : /\ p < q + Len(w)
                            /\ q + Len(w) <= Len(TranscriptionOf(k))
                            /\ SubSeq(TranscriptionOf(k), q + 1, q + Len(w)) = w }

\* C29: in the IoU path of run_evaluation (no word comparison, no external
\* evaluator) a record whose dialect field names a word that occurs in the
\* transcription, and whose hypothesis marks no character, adds an IoU of 0.0;
\* and a record adds an IoU of 1.0 only when the characters its ground truth
\* marks are the characters its hypothesis marks.
C29_IouFallbackEndToEnd ==
    [][ ( /\ mode = "iou" /\ pc = "main_loop" /\ i <= Len(ann)
          /\ MainReachesModel /\ i' = i + 1 ) =>
          /\ (GroundTruthSet(i) # {} /\ MarkedSet(hyp_text') = {})
               => totals'.iou = totals.iou
          /\ totals'.iou = FAdd(totals.iou, One)
               => GroundTruthSet(i) = MarkedSet(hyp_text') ]_vars

(***************************************************************************)
(* Properties of calculate_word_metrics                                    *)
(***************************************************************************)

\* the normalized set of a word string: its commas unified, it is split at
\* them, the pieces are trimmed and the empty ones dropped
NormSet(text) ==
    { Strip(Pieces(text, << >>)[k]) : k \in 1..Len(Pieces(text, << >>)) } \ { << >> }

\* the fraction f is the ratio n / d
IsRatio(f, n, d) == f[2] > 0 /\ f[1] * d = n * f[2]

\* C17: each input is normalized alike, so a hypothesis written with ASCII
\* commas scores as the same hypothesis written with fullwidth commas.
C17_BothInputsNormalized ==
    (pc = "returned" /\ result.fn = "words") => result.out = result.unified

\* C18: with G and H the normalized sets of the two inputs, recall is
\* |G n H| / |G| (G empty: 1 if H is empty, else 0), precision is
\* |G n H| / |H| (H empty: 1 if G is empty, else 0), f1 is 2pr / (p + r),
\* or 0 when p + r = 0.
C18_MetricFormulas ==
    (pc = "returned" /\ result.fn = "words") =>
        LET G == NormSet(args.gt)
            H == NormSet(args.hyp)
            r == result.out[1]
            p == result.out[2]
            f == result.out[3]
        IN  /\ IF G = {} THEN r = (IF H = {} THEN One ELSE Zero)
               ELSE IsRatio(r, Cardinality(G \cap H), Cardinality(G))
            /\ IF H = {} THEN p = (IF G = {} THEN One ELSE Zero)
               ELSE IsRatio(p, Cardinality(G \cap H), Cardinality(H))
            /\ IF p[1] = 0 /\ r[1] = 0 THEN f = Zero
               ELSE IsRatio(f, 2 * p[1] * r[1], p[1] * r[2] + r[1] * p[2])

\* C19, as stated: ("", "") gives (1, 1, 1); ("w", "") gives (0, 1, 0);
\* ("", "w") gives (1, 0, 0); the triple is (recall, precision, f1).
C19_EdgeCasesAsStated ==
    (pc = "returned" /\ result.fn = "words") =>
        /\ (args.gt = << >> /\ args.hyp = << >>) => result.out = << One, One, One >>
        /\ (args.gt = << T("y") >> /\ args.hyp = << >>)
             => result.out = << Zero, One, Zero >>
        /\ (args.gt = << >> /\ args.hyp = << T("y") >>)
             => result.out = << One, Zero, Zero >>

\* C19, amended: ("", "") gives (1, 1, 1); ("w", "") gives (0, 0, 0);
\* ("", "w") gives (0, 0, 0).
C19_EdgeCases ==
    (pc = "returned" /\ result.fn = "words") =>
        /\ (args.gt = << >> /\ args.hyp = << >>) => result.out = << One, One, One >>
        /\ (args.gt = << T("y") >> /\ args.hyp = << >>)
             => result.out = << Zero, Zero, Zero >>
        /\ (args.gt = << >> /\ args.hyp = << T("y") >>)
             => result.out = << Zero, Zero, Zero >>

C19_Witness ==
    /\ pc = "returned" /\ result.fn = "words"
    /\ args.gt = << >> /\ args.hyp = << T("y") >>
    /\ result.out = << Zero, Zero, Zero >>

\* C20: a word repeated, or the words written in another order, in the
\* ground-truth string or in the hypothesis string, changes none of recall,
\* precision and f1.
C20_WordSetSemantics ==
    (pc = "returned" /\ result.fn = "words") =>
        /\ result.out = result.once
        /\ result.out = result.reordered

====
